---- MODULE Spec2Model ----
(***************************************************************************)
(* CalPowerCast: the unified forecast-serving path.                        *)
(*                                                                         *)
(* State: the model storage directory (the pickled model artifact and the  *)
(* JSON metadata record written by train_unified_model), and the request   *)
(* being served with the run of get_forecast made for it (what it returned *)
(* or raised, and the frame it handed to model.predict) and its response.  *)
(* Requests are served one at a time: a handler runs to completion and its *)
(* response is delivered before the next step.                             *)
(* The data pipeline that feeds the training (the sample-data generator,   *)
(* the two CSV loaders and normalize_consumption) is modelled on its CSV   *)
(* files and database tables; a script's run and return value take the     *)
(* place of request and run.  The two create_features are applied to      *)
(* tables of monthly records (SpecFeatures), and SpecConcurrent runs two   *)
(* /forecast handlers step by step, side by side.                          *)
(*                                                                         *)
(* Numbers.  kWh values are fixed-point integers:                          *)
(*   - feature values and predictions in milli-kWh (1/1000),               *)
(*   - interval arithmetic in micro-kWh (1/1000000),                       *)
(*   - the response (after round(x, 2)) in centi-kWh (1/100).              *)
(* Dates are <<year, month, day>> triples; '%Y-%m-%d' text is that triple. *)
(***************************************************************************)
EXTENDS Integers, Sequences, FiniteSets, TLC

VARIABLES
    modelFile,      \* model/unified_forecast_model.pkl: NoFile or an artifact
    metadataFile,   \* model/unified_model_metadata.json: NoFile or a record
    request,        \* the HTTP request being served, or NoRequest
    run,            \* the run of get_forecast made for it, or NotInvoked
    response,       \* the HTTP response returned for it, or NoResponse
    electricityCsv, \* data/electricity_raw.csv: NoFile or a CSV table
    householdsCsv,  \* data/households.csv: NoFile or a CSV table
    dbUrl,          \* whether .env gives DB_URL
    power_consumption,  \* the database tables: NoTable or a sequence of rows
    households,
    normalized_power,
    handlers,       \* the /forecast handlers that run side by side
    moduleGlobals   \* the module-level variables of forecast.py that
                    \* get_forecast assigns (the code has none)

\* the data pipeline's files, environment and tables
dataVars ==
    <<electricityCsv, householdsCsv, dbUrl,
      power_consumption, households, normalized_power>>

\* the state of concurrently served requests
concurrentVars == <<handlers, moduleGlobals>>

vars ==
    <<modelFile, metadataFile, request, run, response, dataVars,
      concurrentVars>>

NoFile == [file |-> "absent"]
NoRequest == [endpoint |-> "none"]
NotInvoked == [kind |-> "NotInvoked", calls |-> <<>>]
NoResponse == [status |-> 0]
NoTable == [table |-> "absent"]

----------------------------------------------------------------------------
(* Sequence helpers *)

Range(s) == {s[i] : i \in DOMAIN s}

IndexOf(s, x) == CHOOSE i \in DOMAIN s : s[i] = x

RECURSIVE SumSeq(_)
SumSeq(s) == IF s = <<>> THEN 0 ELSE Head(s) + SumSeq(Tail(s))

----------------------------------------------------------------------------
(* Counties.  CountyOrder lists the county names a request can carry in    *)
(* ascending string order; a name's index is its rank under Python's       *)
(* string comparison (a space sorts before the capitals, the capitals      *)
(* before the lower-case letters).  "Atlantis" is not in the data set;     *)
(* " Santa  Clara " and "santa clara" are "Santa Clara" with other         *)
(* whitespace and with other letter case; "Tulare" is a county of the      *)
(* sample data that no model of this development is trained on.            *)

CountyOrder ==
    <<" Santa  Clara ", "Alameda", "Atlantis", "Santa Clara", "Tulare",
      "santa clara">>

DataCounties == {"Alameda", "Santa Clara"}

CountyInputs == Range(CountyOrder)

Rank(name) == IndexOf(CountyOrder, name)

\* sorted(xs) for a list of county names (stable insertion into rank order)
RECURSIVE SortedNames(_)
SortedNames(xs) ==
    IF xs = <<>> THEN <<>>
    ELSE LET rest == SortedNames(Tail(xs))
             h == Head(xs)
             before == SelectSeq(rest, LAMBDA y : Rank(y) < Rank(h))
             after == SelectSeq(rest, LAMBDA y : Rank(y) >= Rank(h))
         IN before \o <<h>> \o after

\* the sorted list of the distinct names of a set
RECURSIVE SetToSortedSeq(_)
SetToSortedSeq(S) ==
    IF S = {} THEN <<>>
    ELSE LET m == CHOOSE x \in S : \A y \in S : Rank(x) <= Rank(y)
         IN <<m>> \o SetToSortedSeq(S \ {m})

\* JSON object keys are strings: json.dump writes the int code k as "k"
CodeText == <<"0", "1", "2">>

IntToStr(k) == CodeText[k + 1]

StrToInt(s) == IndexOf(CodeText, s) - 1

----------------------------------------------------------------------------
(* Calendar arithmetic of datetime + timedelta(days=n) *)

IsLeap(y) == (y % 4 = 0 /\ y % 100 # 0) \/ y % 400 = 0

DaysInMonth(y, m) ==
    IF m = 2 THEN (IF IsLeap(y) THEN 29 ELSE 28)
    ELSE IF m \in {4, 6, 9, 11} THEN 30 ELSE 31

NextMonth(y, m) == IF m = 12 THEN <<y + 1, 1>> ELSE <<y, m + 1>>

\* date + timedelta(days=n), n >= 0
RECURSIVE AddDays(_, _)
AddDays(date, n) ==
    LET y == date[1]
        m == date[2]
        d == date[3]
        len == DaysInMonth(y, m)
    IN IF d + n <= len THEN <<y, m, d + n>>
       ELSE LET nm == NextMonth(y, m)
            IN AddDays(<<nm[1], nm[2], 1>>, n - (len - d + 1))

----------------------------------------------------------------------------
(* Integer arithmetic standing for the float arithmetic of the code *)

\* the largest r in lo..hi with r*r <= v
RECURSIVE SqrtSearch(_, _, _)
SqrtSearch(v, lo, hi) ==
    IF lo = hi THEN lo
    ELSE LET mid == (lo + hi + 1) \div 2
         IN IF mid * mid <= v THEN SqrtSearch(v, mid, hi)
                              ELSE SqrtSearch(v, lo, mid - 1)

\* floor(sqrt(v)) for 0 <= v < 2^31
ISqrt(v) == SqrtSearch(v, 0, 46340)

\* np.std(xs): population standard deviation (milli-kWh in, milli-kWh out).
\* The mean and the root are truncated to whole milli-kWh, so a bound
\* derived from it can differ from the float result by 0.01 kWh.
NpStd(xs) ==
    LET n == Len(xs)
        mean == SumSeq(xs) \div n
        sq == [i \in DOMAIN xs |-> (xs[i] - mean) * (xs[i] - mean)]
    IN ISqrt(SumSeq(sq) \div n)

\* round(x, 2): micro-kWh in, centi-kWh out, ties to the even neighbour
Round2(micro) ==
    LET q == micro \div 10000
        r == micro % 10000
    IN IF r < 5000 THEN q
       ELSE IF r > 5000 THEN q + 1
       ELSE IF q % 2 = 0 THEN q ELSE q + 1

Max(a, b) == IF a >= b THEN a ELSE b

----------------------------------------------------------------------------
(* The feature contract *)

\* feature_cols of train_unified_model: what the model is fitted on and
\* what is written to the metadata as 'features'
FeatureCols ==
    <<"county_encoded", "year", "month", "year_sin", "year_cos",
      "month_sin", "month_cos", "trend", "lag_1", "lag_12", "rolling_mean_3">>

\* the keys of the dict get_forecast builds per horizon step, in insertion
\* order: the columns of pd.DataFrame(future_data)
BuiltCols ==
    <<"county_encoded", "year", "month", "year_sin", "year_cos",
      "month_sin", "month_cos", "trend", "lag_1", "lag_12", "rolling_mean_3">>

\* np.sin / np.cos of 2*pi*year/4 and 2*pi*month/12, in thousandths
YearSin(year) == <<0, 1000, 0, -1000>>[(year % 4) + 1]

YearCos(year) == <<1000, 0, -1000, 0>>[(year % 4) + 1]

MonthSin(month) ==
    <<500, 866, 1000, 866, 500, 0, -500, -866, -1000, -866, -500, 0>>[month]

MonthCos(month) ==
    <<866, 500, 0, -500, -866, -1000, -866, -500, 0, 500, 866, 1000>>[month]

----------------------------------------------------------------------------
(* The model artifact.  The fitted regressor is opaque: an artifact is a   *)
(* stub [base, perMonth, perLag] predicting                                *)
(*     base + perMonth * month + perLag * lag_1      (milli-kWh)           *)
(* from the columns it is given, together with the column list it was      *)
(* fitted on.                                                              *)

StubModels ==
    { [base |-> 0,      perMonth |-> 0,    perLag |-> 0],
      [base |-> -1234,  perMonth |-> 0,    perLag |-> 0],
      [base |-> -3008,  perMonth |-> 1002, perLag |-> 0],
      [base |-> 700126, perMonth |-> 332,  perLag |-> 0],
      [base |-> 25004,  perMonth |-> 0,    perLag |-> 1] }

Cell(row, col) == IF col \in DOMAIN row THEN row[col] ELSE 0

\* model.predict(frame): one value per row of the frame
Predict(artifact, frame) ==
    [k \in DOMAIN frame.rows |->
        artifact.stub.base
        + artifact.stub.perMonth * Cell(frame.rows[k], "month")
        + artifact.stub.perLag * Cell(frame.rows[k], "lag_1")]

----------------------------------------------------------------------------
(* get_forecast (src/forecast.py) *)

ModelPath == "model/unified_forecast_model.pkl"

MetadataPath == "model/unified_model_metadata.json"

\* start_date = datetime(2024, 12, 1)
StartDate == <<2024, 12, 1>>

\* the stride of timedelta(days=31*i)
StrideDays == 31

\* avg_kwh = 800, the value written into every lag and rolling feature
AvgKwh == 800

\* variants of FutureDates: range(1, periods) and range(0, periods)
FutureDatesShort(periods) ==
    [i \in 1..(periods - 1) |-> AddDays(StartDate, StrideDays * i)]

FutureDatesFromZero(periods) ==
    [i \in 1..periods |-> AddDays(StartDate, StrideDays * (i - 1))]

\* future_dates = [start_date + timedelta(days=31*i) for i in range(1, periods+1)]
FutureDates(periods) ==
    [i \in 1..periods |-> AddDays(StartDate, StrideDays * i)]

\* the dict built for horizon step k (enumerate index i = k - 1)
FutureRow(county_encoded, date, i) ==
    [county_encoded |-> county_encoded,
     year           |-> date[1],
     month          |-> date[2],
     year_sin       |-> YearSin(date[1]),
     year_cos       |-> YearCos(date[1]),
     month_sin      |-> MonthSin(date[2]),
     month_cos      |-> MonthCos(date[2]),
     trend          |-> 3500 + (i * 1000) \div 12,
     lag_1          |-> "None",
     lag_12         |-> "None",
     rolling_mean_3 |-> "None"]

\* the second loop: every row's lag_1, lag_12 and rolling_mean_3 := float(avg_kwh)
FillLags(rows) ==
    [k \in DOMAIN rows |->
        [rows[k] EXCEPT !.lag_1 = AvgKwh * 1000,
                        !.lag_12 = AvgKwh * 1000,
                        !.rolling_mean_3 = AvgKwh * 1000]]

FutureData(county_encoded, dates) ==
    FillLags([k \in DOMAIN dates |-> FutureRow(county_encoded, dates[k], k - 1)])

\* {v: k for k, v in metadata['county_mapping'].items()}: name -> code key;
\* of two keys with one name the later item wins
InvertMapping(mapping) ==
    [name \in {mapping[k] : k \in DOMAIN mapping} |->
        CHOOSE k \in DOMAIN mapping :
            /\ mapping[k] = name
            /\ \A j \in DOMAIN mapping :
                   mapping[j] = name => StrToInt(j) <= StrToInt(k)]

\* pd.DataFrame(future_data)[feature_cols]: the listed columns, in the
\* listed order; an empty list of dicts makes a frame without columns
DataFrameCols(future_data) == IF future_data = <<>> THEN <<>> ELSE BuiltCols

MissingCols(future_data, feature_cols) ==
    {c \in Range(feature_cols) : c \notin Range(DataFrameCols(future_data))}

SelectColumns(future_data, feature_cols) ==
    [columns |-> feature_cols,
     rows    |-> [k \in DOMAIN future_data |->
                     [c \in Range(feature_cols) |-> future_data[k][c]]]]

\* future_df[col] = future_df[col].astype(int) for county_encoded, year, month
AstypeCols == <<"county_encoded", "year", "month">>

AstypeInt(frame) ==
    [frame EXCEPT !.rows =
        [k \in DOMAIN frame.rows |->
            [frame.rows[k] EXCEPT
                !["county_encoded"] = StrToInt(frame.rows[k]["county_encoded"])]]]

\* a variant of ForecastEntry that floors the upper bound at zero as well
ForecastEntryClamped(date, pred, half_width) ==
    [date          |-> date,
     predicted_kwh |-> Round2(pred * 1000),
     lower_bound   |-> Round2(Max(0, pred * 1000 - half_width)),
     upper_bound   |-> Round2(Max(0, pred * 1000 + half_width))]

\* one entry of the forecast list, from the date and the prediction of a
\* step and the std_error of the whole batch
ForecastEntry(date, pred, half_width) ==
    [date          |-> date,
     predicted_kwh |-> Round2(pred * 1000),
     lower_bound   |-> Round2(Max(0, pred * 1000 - half_width)),
     upper_bound   |-> Round2(pred * 1000 + half_width)]

\* a variant of HalfWidth that never falls below 0.01 kWh
HalfWidthFloored(predictions) == Max(196 * NpStd(predictions), 10000)

\* 1.96 * (np.std(predictions) * 0.1), in micro-kWh
HalfWidth(predictions) == 196 * NpStd(predictions)

FormatResults(dates, predictions) ==
    LET half_width == HalfWidth(predictions)
    IN [k \in DOMAIN dates |->
           ForecastEntry(dates[k], predictions[k], half_width)]

\* a variant of CountyKnown that lets every county through
CountyUnchecked(county, metadata) == TRUE

\* county in metadata['counties']
CountyKnown(county, metadata) == county \in Range(metadata.counties)

Raised(kind, info) == [kind |-> kind, info |-> info, calls |-> <<>>]

\* a variant of Resolve that looks the county up in the metadata before it
\* checks that the model artifact exists
ResolveCountyFirst(county, artifact, metadata) ==
    IF metadata = NoFile THEN Raised("FileNotFoundError", MetadataPath)
    ELSE IF ~CountyKnown(county, metadata)
    THEN Raised("ValueError",
                [requested |-> county, available |-> metadata.counties])
    ELSE IF artifact = NoFile THEN Raised("FileNotFoundError", ModelPath)
    ELSE LET county_mapping == InvertMapping(metadata.county_mapping)
    IN IF county \notin DOMAIN county_mapping THEN Raised("KeyError", county)
    ELSE [kind |-> "resolved", info |-> county_mapping[county], calls |-> <<>>]

\* The lookups get_forecast makes before it builds anything: the artifact,
\* the metadata, the county's membership in metadata['counties'] and its key
\* in the inverted county_mapping.  Yields the county's code, or what is
\* raised.
Resolve(county, artifact, metadata) ==
    IF artifact = NoFile THEN Raised("FileNotFoundError", ModelPath)
    ELSE IF metadata = NoFile THEN Raised("FileNotFoundError", MetadataPath)
    ELSE IF ~CountyKnown(county, metadata)
    THEN Raised("ValueError",
                [requested |-> county, available |-> metadata.counties])
    ELSE LET county_mapping == InvertMapping(metadata.county_mapping)
    IN IF county \notin DOMAIN county_mapping THEN Raised("KeyError", county)
    ELSE [kind |-> "resolved", info |-> county_mapping[county], calls |-> <<>>]

\* One run of get_forecast(county, periods) on the given storage: what it
\* returns or raises (kind, info), and the frames it passed to model.predict
\* (calls)
get_forecast(county, periods, artifact, metadata) ==
    LET resolved == Resolve(county, artifact, metadata)
    IN IF resolved.kind # "resolved" THEN resolved
    ELSE LET future_dates == FutureDates(periods)
             future_data == FutureData(resolved.info, future_dates)
             feature_cols == metadata.features
    IN IF MissingCols(future_data, feature_cols) # {}
       THEN Raised("KeyError", MissingCols(future_data, feature_cols))
    ELSE IF \E c \in Range(AstypeCols) : c \notin Range(feature_cols)
       THEN Raised("KeyError", Range(AstypeCols) \ Range(feature_cols))
    ELSE LET future_df == AstypeInt(SelectColumns(future_data, feature_cols))
             predictions == Predict(artifact, future_df)
    IN [kind |-> "ok",
        info |-> [county     |-> county,
                  periods    |-> periods,
                  model_type |-> "unified_xgboost",
                  forecast   |-> FormatResults(future_dates, predictions)],
        calls |-> <<future_df>>]

\* list_available_counties()
list_available_counties(metadata) ==
    IF metadata = NoFile THEN <<>> ELSE SortedNames(metadata.counties)

----------------------------------------------------------------------------
(* The /forecast and /counties endpoints (src/app.py, src/backend/app.py) *)

MinPeriods == 1

MaxPeriods == 36

DefaultPeriods == 12

\* periods: int = Query(12, ...); the parameter is <<p>> when the query
\* string gives it and <<>> when it is omitted
QueryPeriods(param) == IF param = <<>> THEN DefaultPeriods ELSE param[1]

HTTPException(status_code, detail) ==
    [status |-> status_code, body |-> [detail |-> detail]]

\* a variant of ForecastResponse without the FileNotFoundError handler
ForecastResponseNo404(periods, r) ==
    IF periods < MinPeriods \/ periods > MaxPeriods
    THEN HTTPException(400, "Periods must be between 1 and 36")
    ELSE IF r.kind = "ok" THEN [status |-> 200, body |-> r.info]
    ELSE HTTPException(500, <<"Error generating forecast", r.kind, r.info>>)

\* the status and body the handler answers with, given the run it made
ForecastResponse(periods, r) ==
    IF periods < MinPeriods \/ periods > MaxPeriods
    THEN HTTPException(400, "Periods must be between 1 and 36")
    ELSE IF r.kind = "ok" THEN [status |-> 200, body |-> r.info]
    ELSE IF r.kind = "FileNotFoundError" THEN HTTPException(404, r.info)
    ELSE HTTPException(500, <<"Error generating forecast", r.kind, r.info>>)

\* a variant of ForecastRun that validates the lower end of the range only
ForecastRunNoUpperCheck(county, periods, artifact, metadata) ==
    IF periods < MinPeriods THEN NotInvoked
    ELSE get_forecast(county, periods, artifact, metadata)

\* the run of get_forecast the handler makes, if it makes one
ForecastRun(county, periods, artifact, metadata) ==
    IF periods < MinPeriods \/ periods > MaxPeriods THEN NotInvoked
    ELSE get_forecast(county, periods, artifact, metadata)

CountiesResponse(metadata) ==
    LET available_counties == list_available_counties(metadata)
    IN [status |-> 200,
        body   |-> [total_counties |-> Len(available_counties),
                    counties       |-> available_counties]]

----------------------------------------------------------------------------
(* train_unified_model (src/backend/train_unified_model.py) *)

\* pd.Categorical(df['county']).codes: the rank of the county among the
\* distinct counties of the table
CategoricalCode(county, counties) ==
    Cardinality({c \in counties : Rank(c) < Rank(county)})

\* a variant of CountyMapping that pairs the codes in ascending order with
\* the county names in descending order
CountyMappingReversed(counties) ==
    [k \in {IntToStr(CategoricalCode(c, counties)) : c \in counties} |->
        CHOOSE c \in counties :
            IntToStr(Cardinality(counties) - 1 - CategoricalCode(c, counties))
                = k]

\* dict(zip(df['county_encoded'].unique(), df['county'].unique())) with the
\* int keys written by json.dump as strings
CountyMapping(counties) ==
    [k \in {IntToStr(CategoricalCode(c, counties)) : c \in counties} |->
        CHOOSE c \in counties : IntToStr(CategoricalCode(c, counties)) = k]

\* a variant of TrainedMetadata that writes the features in another order
\* than the one the model is fitted on
TrainedMetadataReordered(counties) ==
    [model_type     |-> "xgboost_unified",
     counties       |-> SetToSortedSeq(counties),
     features       |-> <<"year", "month", "county_encoded">>
                            \o SubSeq(FeatureCols, 4, 11),
     county_mapping |-> CountyMapping(counties)]

\* the metadata record written for a normalized_power table holding the
\* given counties (the fields the serving code reads)
TrainedMetadata(counties) ==
    [model_type     |-> "xgboost_unified",
     counties       |-> SetToSortedSeq(counties),
     features       |-> FeatureCols,
     county_mapping |-> CountyMapping(counties)]

\* the artifact joblib.dump writes: the regressor fitted on X_train =
\* train_df[feature_cols]
TrainedArtifact(stub) == [stub |-> stub, fitted |-> FeatureCols]

----------------------------------------------------------------------------
(* Metadata records put into the model directory by hand or by another     *)
(* version of the training script: the feature list, the county list or    *)
(* the county mapping differ from what train_unified_model writes.         *)

Without(s, x) == SelectSeq(s, LAMBDA y : y # x)

BaseMetadata == TrainedMetadata(DataCounties)

DeployedMetadata ==
    { [BaseMetadata EXCEPT !.features = Without(FeatureCols, "lag_12")],
      [BaseMetadata EXCEPT !.features = Without(FeatureCols, "month")],
      [BaseMetadata EXCEPT !.features = Append(FeatureCols, "temperature")],
      [BaseMetadata EXCEPT !.features =
          <<"year", "month", "county_encoded">> \o SubSeq(FeatureCols, 4, 11)],
      [BaseMetadata EXCEPT !.counties =
          <<"Santa Clara", "Alameda", "Santa Clara">>],
      [BaseMetadata EXCEPT !.county_mapping =
          [k \in {"0"} |-> BaseMetadata.county_mapping[k]]] }

----------------------------------------------------------------------------
(* Actions *)

Idle == request = NoRequest

\* the handlers of /forecast that can run at the same time (worker
\* processes or threads)
Workers == {1, 2}

IdleHandler == [pc |-> "idle"]

\* how far outside the accepted range the requested periods go
PeriodSlack == 1

PeriodInputs == (MinPeriods - PeriodSlack)..(MaxPeriods + PeriodSlack)

PeriodParams == {<<p>> : p \in PeriodInputs} \cup {<<>>}

Init ==
    /\ modelFile = NoFile
    /\ metadataFile = NoFile
    /\ request = NoRequest
    /\ run = NotInvoked
    /\ response = NoResponse
    /\ electricityCsv = NoFile
    /\ householdsCsv = NoFile
    /\ dbUrl = TRUE
    /\ power_consumption = NoTable
    /\ households = NoTable
    /\ normalized_power = NoTable
    /\ handlers = [h \in Workers |-> IdleHandler]
    /\ moduleGlobals = <<>>

\* python train_unified_model.py on a normalized_power table holding the
\* counties cs; the fit yields some regressor
TrainUnifiedModel ==
    /\ Idle
    /\ \E cs \in (SUBSET DataCounties) \ {{}}, stub \in StubModels :
          /\ modelFile' = TrainedArtifact(stub)
          /\ metadataFile' = TrainedMetadata(cs)
    /\ UNCHANGED <<concurrentVars, request, run, response, dataVars>>

RemoveModelFile ==
    /\ Idle
    /\ modelFile # NoFile
    /\ modelFile' = NoFile
    /\ UNCHANGED <<concurrentVars, metadataFile, request, run, response,
                   dataVars>>

RemoveMetadataFile ==
    /\ Idle
    /\ metadataFile # NoFile
    /\ metadataFile' = NoFile
    /\ UNCHANGED <<concurrentVars, modelFile, request, run, response,
                   dataVars>>

DeployMetadata ==
    /\ Idle
    /\ \E m \in DeployedMetadata : metadataFile' = m
    /\ UNCHANGED <<concurrentVars, modelFile, request, run, response,
                   dataVars>>

\* GET /forecast?county=..&periods=..
ForecastRequest ==
    /\ Idle
    /\ \E county \in CountyInputs, param \in PeriodParams :
          LET periods == QueryPeriods(param)
              r == ForecastRun(county, periods, modelFile, metadataFile)
          IN /\ request' = [endpoint |-> "/forecast", county |-> county,
                            periods |-> param]
             /\ run' = r
             /\ response' = ForecastResponse(periods, r)
    /\ UNCHANGED <<concurrentVars, modelFile, metadataFile, dataVars>>

\* GET /counties
CountiesRequest ==
    /\ Idle
    /\ request' = [endpoint |-> "/counties"]
    /\ run' = NotInvoked
    /\ response' = CountiesResponse(metadataFile)
    /\ UNCHANGED <<concurrentVars, modelFile, metadataFile, dataVars>>

\* the periods a caller inside the process passes to get_forecast: around
\* zero, below what the endpoint lets through
DirectPeriods == (MinPeriods - PeriodSlack - 1)..MinPeriods

\* get_forecast(county, periods) called as a function, not through the
\* endpoint: nothing validates periods before the call
DirectForecastCall ==
    /\ Idle
    /\ \E county \in CountyInputs, periods \in DirectPeriods :
          /\ request' = [endpoint |-> "get_forecast", county |-> county,
                            periods |-> <<periods>>]
          /\ run' = get_forecast(county, periods, modelFile, metadataFile)
    /\ response' = NoResponse
    /\ UNCHANGED <<concurrentVars, modelFile, metadataFile, dataVars>>

\* the response leaves the server, or the call or script returns
Deliver ==
    /\ ~Idle
    /\ request' = NoRequest
    /\ run' = NotInvoked
    /\ response' = NoResponse
    /\ UNCHANGED <<concurrentVars, modelFile, metadataFile, dataVars>>

Next ==
    \/ TrainUnifiedModel
    \/ RemoveModelFile
    \/ RemoveMetadataFile
    \/ DeployMetadata
    \/ ForecastRequest
    \/ CountiesRequest
    \/ DirectForecastCall
    \/ Deliver

Spec == Init /\ [][Next]_vars

\* the storage is written by train_unified_model only
NextTrained ==
    \/ TrainUnifiedModel
    \/ RemoveModelFile
    \/ RemoveMetadataFile
    \/ ForecastRequest
    \/ CountiesRequest
    \/ DirectForecastCall
    \/ Deliver

SpecTrained == Init /\ [][NextTrained]_vars

----------------------------------------------------------------------------
(* The Feature Builder: create_features of src/forecast.py and of           *)
(* src/backend/train_unified_model.py, applied to a normalized_power table. *)
(* A table is a sequence of rows [county, year, month, kwh_per_household]   *)
(* (milli-kWh); a null cell (NaN) is <<>> and a value v is <<v>>.           *)

\* the first month of the bundled electricity data
FirstMonth == <<2022, 1>>

\* the largest number of monthly records of one county in a table
MaxRows == 13

\* the month k months after ym
RECURSIVE MonthsAfter(_, _)
MonthsAfter(ym, k) ==
    IF k = 0 THEN ym ELSE MonthsAfter(NextMonth(ym[1], ym[2]), k - 1)

\* the days from the first of month `from` to the first of month `to`
RECURSIVE DaysBetween(_, _)
DaysBetween(from, to) ==
    IF from = to THEN 0
    ELSE DaysInMonth(from[1], from[2])
         + DaysBetween(NextMonth(from[1], from[2]), to)

\* consumption per household: one constant per county, or a series rising
\* month by month (multiples of 6000, so that a mean of up to three values
\* is a whole number)
KwhPatterns == {"constant", "rising"}

Kwh(county, pattern, k) ==
    LET level == IF county = "Alameda" THEN 600000 ELSE 900000
        slope == IF county = "Alameda" THEN 6000 ELSE 12000
    IN IF pattern = "constant" THEN level ELSE level + slope * k

\* n consecutive monthly records of one county
Series(county, start, n, pattern) ==
    [k \in 1..n |->
        LET ym == MonthsAfter(start, k - 1)
        IN [county            |-> county,
            year              |-> ym[1],
            month             |-> ym[2],
            kwh_per_household |-> Kwh(county, pattern, k)]]

\* SELECT ... FROM normalized_power ORDER BY county, year, month: the
\* records of "Alameda", then those of "Santa Clara", which may start later
Datasets ==
    { Series("Alameda", FirstMonth, nA, pattern)
        \o Series("Santa Clara", MonthsAfter(FirstMonth, late), nB, pattern) :
      <<nA, nB, late, pattern>> \in
          {t \in (0..MaxRows) \X (0..MaxRows) \X {0, 2} \X KwhPatterns :
              t[1] + t[2] >= 1} }

Column(df, col) == [k \in DOMAIN df |-> df[k][col]]

\* a variant of Shift that fills the start of the series with its first
\* value instead of null
ShiftBackfilled(values, n) ==
    [k \in DOMAIN values |->
        IF k > n THEN <<values[k - n]>> ELSE <<values[1]>>]

\* series.shift(n)
Shift(values, n) ==
    [k \in DOMAIN values |-> IF k > n THEN <<values[k - n]>> ELSE <<>>]

\* a variant of RollingMean with the window centred on the record
\* (rolling(window=w, center=True))
RollingMeanCentered(values, w) ==
    [k \in DOMAIN values |->
        LET lo == Max(1, k - w \div 2)
            hi == IF k + w \div 2 <= Len(values) THEN k + w \div 2
                  ELSE Len(values)
        IN SumSeq(SubSeq(values, lo, hi)) \div (hi - lo + 1)]

\* series.rolling(window=w, min_periods=1).mean()
RollingMean(values, w) ==
    [k \in DOMAIN values |->
        LET lo == Max(1, k - w + 1)
        IN SumSeq(SubSeq(values, lo, k)) \div (k - lo + 1)]

\* (date - min_date).dt.days / 365.0, in thousandths
Trend(ym, min_ym) == (DaysBetween(min_ym, ym) * 1000) \div 365

\* series.min() of the (year, month) of the rows
MinMonth(df) ==
    LET k == CHOOSE i \in DOMAIN df :
                 \A j \in DOMAIN df :
                     df[i].year * 12 + df[i].month
                         <= df[j].year * 12 + df[j].month
    IN <<df[k].year, df[k].month>>

\* the rows of one county, in the order of the table
Group(df, county) == SelectSeq(df, LAMBDA r : r.county = county)

\* the place of row k among the rows of its county
PosInGroup(df, k) == Cardinality({i \in 1..k : df[i].county = df[k].county})

TimeFeatures(r) ==
    [year_sin  |-> YearSin(r.year),
     year_cos  |-> YearCos(r.year),
     month_sin |-> MonthSin(r.month),
     month_cos |-> MonthCos(r.month)]

FeatureRow(r, trend, lag_1, lag_12, rolling_mean_3) ==
    [county            |-> r.county,
     year              |-> r.year,
     month             |-> r.month,
     kwh_per_household |-> r.kwh_per_household,
     date              |-> <<r.year, r.month, 1>>,
     year_sin          |-> TimeFeatures(r).year_sin,
     year_cos          |-> TimeFeatures(r).year_cos,
     month_sin         |-> TimeFeatures(r).month_sin,
     month_cos         |-> TimeFeatures(r).month_cos,
     trend             |-> trend,
     lag_1             |-> lag_1,
     lag_12            |-> lag_12,
     rolling_mean_3    |-> rolling_mean_3]

\* create_features(df) of src/forecast.py: trend from the first date of the
\* table, shift and rolling over the kwh_per_household column as it stands
create_features(df) ==
    LET kwh == Column(df, "kwh_per_household")
        min_date == MinMonth(df)
        lag_1 == Shift(kwh, 1)
        lag_12 == Shift(kwh, 12)
        rolling_mean_3 == RollingMean(kwh, 3)
    IN [k \in DOMAIN df |->
           FeatureRow(df[k], Trend(<<df[k].year, df[k].month>>, min_date),
                      lag_1[k], lag_12[k], rolling_mean_3[k])]

\* create_features(df) of src/backend/train_unified_model.py: trend, shift
\* and rolling per df.groupby('county')
train_create_features(df) ==
    [k \in DOMAIN df |->
        LET group == Group(df, df[k].county)
            kwh == Column(group, "kwh_per_household")
            pos == PosInGroup(df, k)
        IN FeatureRow(df[k],
                      Trend(<<df[k].year, df[k].month>>, MinMonth(group)),
                      Shift(kwh, 1)[pos], Shift(kwh, 12)[pos],
                      RollingMean(kwh, 3)[pos])]

Features(module, df) ==
    IF module = "forecast" THEN create_features(df)
    ELSE train_create_features(df)

\* create_features(df) of src/forecast.py is called on a table
ServingCreateFeatures ==
    /\ Idle
    /\ \E df \in Datasets :
          /\ request' = [endpoint |-> "create_features",
                            module |-> "forecast", df |-> df]
          /\ run' = [kind |-> "ok", info |-> create_features(df),
                        calls |-> <<>>]
    /\ response' = NoResponse
    /\ UNCHANGED <<concurrentVars, modelFile, metadataFile, dataVars>>

\* train_unified_model calls its create_features(df) on the table it loaded
TrainingCreateFeatures ==
    /\ Idle
    /\ \E df \in Datasets :
          /\ request' = [endpoint |-> "create_features",
                            module |-> "train_unified_model", df |-> df]
          /\ run' = [kind |-> "ok", info |-> train_create_features(df),
                        calls |-> <<>>]
    /\ response' = NoResponse
    /\ UNCHANGED <<concurrentVars, modelFile, metadataFile, dataVars>>

NextFeatures ==
    \/ ServingCreateFeatures
    \/ TrainingCreateFeatures
    \/ Deliver

SpecFeatures == Init /\ [][NextFeatures]_vars

----------------------------------------------------------------------------
(* The data pipeline: generate_realistic_data writes the two CSV files,     *)
(* load_data_to_postgres and load_households_to_db copy them into the       *)
(* tables power_consumption and households, normalize_consumption derives   *)
(* normalized_power.  A CSV file is [columns, rows]; a table is a sequence  *)
(* of rows.  Households count in thousands, consumption_gwh in thousandths  *)
(* of a GWh (the generator rounds to 3 places), kwh_per_household in        *)
(* milli-kWh.  A CSV cell of month or consumption_gwh is <<v>> for a number *)
(* and <<>> for text that is no number.                                     *)

\* the months of a year that the generated sample holds
MaxMonth == 2

\* CALIFORNIA_COUNTIES as (name, households in thousands), shortened to four
\* of its entries in the order of the list; 'Tulare' is entered twice
CALIFORNIA_COUNTIES ==
    << <<"Santa Clara", 630>>, <<"Alameda", 560>>,
       <<"Tulare", 150>>, <<"Tulare", 150>> >>

HouseholdYears == <<2020, 2021, 2022, 2023, 2024>>

ElectricityYears == <<2022, 2023, 2024>>

\* concatenation of a sequence of sequences
RECURSIVE Flatten(_)
Flatten(ss) == IF ss = <<>> THEN <<>> ELSE Head(ss) \o Flatten(Tail(ss))

\* households * growth_factor, the random variation taken as 0
YearHouseholds(base, year) == (base * (1000 + 15 * (year - 2020))) \div 1000

\* base_monthly_kwh * seasonal_multiplier, the random draws taken at 700
\* kWh and at factor 1
MonthlyKwh(month) ==
    IF month \in {7, 8} THEN 945
    ELSE IF month \in {6, 9} THEN 805
    ELSE IF month \in {12, 1} THEN 840
    ELSE IF month \in {2, 3} THEN 770
    ELSE 665

\* households_data: one record per list entry and year
GeneratedHouseholds ==
    Flatten([c \in DOMAIN CALIFORNIA_COUNTIES |->
        [y \in DOMAIN HouseholdYears |->
            [county     |-> CALIFORNIA_COUNTIES[c][1],
             year       |-> HouseholdYears[y],
             households |-> YearHouseholds(CALIFORNIA_COUNTIES[c][2],
                                           HouseholdYears[y])]]])

\* households_df[(county == county_name) & (year == year)].iloc[0]
FirstHouseholds(table, county, year) ==
    LET k == CHOOSE i \in DOMAIN table :
                 /\ table[i].county = county /\ table[i].year = year
                 /\ \A j \in 1..(i - 1) :
                        ~(table[j].county = county /\ table[j].year = year)
    IN table[k].households

\* electricity_data: one record per list entry, year and month
GeneratedElectricity ==
    Flatten([c \in DOMAIN CALIFORNIA_COUNTIES |->
        Flatten([y \in DOMAIN ElectricityYears |->
            [m \in 1..MaxMonth |->
                [county          |-> CALIFORNIA_COUNTIES[c][1],
                 year            |-> ElectricityYears[y],
                 month           |-> <<m>>,
                 sector          |-> "Residential",
                 consumption_gwh |->
                     <<MonthlyKwh(m)
                       * FirstHouseholds(GeneratedHouseholds,
                                         CALIFORNIA_COUNTIES[c][1],
                                         ElectricityYears[y])>>]]])])

ElectricityCols == {"county", "year", "month", "sector", "consumption_gwh"}

HouseholdCols == {"county", "year", "households"}

ElectricityRow(county, year, month, sector, gwh) ==
    [county |-> county, year |-> year, month |-> month, sector |-> sector,
     consumption_gwh |-> gwh]

\* electricity CSV files that do not come from the generator: one whose rows
\* all fail the filter, one without the consumption_gwh column, one without
\* the sector column, and one that mixes good rows with rows of another
\* sector, of other years, of months outside 1..12 and of cells that are no
\* numbers
OtherElectricityCsvs ==
    { [columns |-> ElectricityCols,
       rows |-> << ElectricityRow("Alameda", 2022, <<1>>, "Commercial", <<400000>>),
                   ElectricityRow("Alameda", 2021, <<1>>, "Residential", <<400000>>),
                   ElectricityRow("Alameda", 2025, <<1>>, "Residential", <<400000>>) >>],
      [columns |-> ElectricityCols \ {"consumption_gwh"},
       rows |-> << [county |-> "Alameda", year |-> 2022, month |-> <<1>>,
                    sector |-> "Residential"] >>],
      [columns |-> ElectricityCols \ {"sector"},
       rows |-> << [county |-> "Alameda", year |-> 2022, month |-> <<1>>,
                    consumption_gwh |-> <<400000>>] >>],
      [columns |-> ElectricityCols,
       rows |-> << ElectricityRow("Alameda", 2022, <<1>>, "Residential", <<470400>>),
                   ElectricityRow("Alameda", 2022, <<1>>, "Commercial", <<900000>>),
                   ElectricityRow("Alameda", 2021, <<12>>, "Residential", <<400000>>),
                   ElectricityRow("Alameda", 2025, <<1>>, "Residential", <<400000>>),
                   ElectricityRow("Alameda", 2022, <<13>>, "Residential", <<400000>>),
                   ElectricityRow("Alameda", 2022, <<0>>, "Residential", <<400000>>),
                   ElectricityRow("Alameda", 2022, <<>>, "Residential", <<400000>>),
                   ElectricityRow("Alameda", 2022, <<2>>, "Residential", <<>>),
                   ElectricityRow("Santa Clara", 2024, <<12>>, "Residential", <<544320>>) >>] }

\* python generate_realistic_data.py
GenerateRealisticData ==
    /\ Idle
    /\ householdsCsv' = [columns |-> HouseholdCols, rows |-> GeneratedHouseholds]
    /\ electricityCsv' =
           [columns |-> ElectricityCols, rows |-> GeneratedElectricity]
    /\ UNCHANGED <<concurrentVars, modelFile, metadataFile, request, run,
                   response, dbUrl,
                   power_consumption, households, normalized_power>>

\* another electricity_raw.csv is put into data/, or the file is removed
PlaceElectricityCsv ==
    /\ Idle
    /\ \E csv \in OtherElectricityCsvs \cup {NoFile} :
          /\ csv # electricityCsv
          /\ electricityCsv' = csv
    /\ UNCHANGED <<concurrentVars, modelFile, metadataFile, request, run,
                   response,
                   householdsCsv, dbUrl,
                   power_consumption, households, normalized_power>>

\* DB_URL is written to .env or taken out of it
EditEnv ==
    /\ Idle
    /\ dbUrl' = ~dbUrl
    /\ UNCHANGED <<concurrentVars, modelFile, metadataFile, request, run,
                   response,
                   electricityCsv, householdsCsv,
                   power_consumption, households, normalized_power>>

Returns(script, value) ==
    /\ request' = [endpoint |-> script]
    /\ run' = [kind |-> "ok", info |-> value, calls |-> <<>>]
    /\ response' = NoResponse

\* df[(sector == 'Residential') & (year >= 2022) & (year <= 2024)]
ResidentialRecent(rows) ==
    SelectSeq(rows, LAMBDA r :
        r.sector = "Residential" /\ r.year >= 2022 /\ r.year <= 2024)

\* to_numeric(errors='coerce') and dropna on month, the 1..12 test, then the
\* same on consumption_gwh: the rows that stay, with plain numbers
CleanRows(rows) ==
    LET kept == SelectSeq(rows, LAMBDA r :
                    /\ r.month # <<>>
                    /\ r.month[1] >= 1 /\ r.month[1] <= 12
                    /\ r.consumption_gwh # <<>>)
    IN [k \in DOMAIN kept |->
           ElectricityRow(kept[k].county, kept[k].year, kept[k].month[1],
                          kept[k].sector, kept[k].consumption_gwh[1])]

\* a variant of LoadResult whose to_sql appends to the table
\* (if_exists='append')
LoadResultAppend(csv, url, table) ==
    IF csv = NoFile THEN [ok |-> FALSE, table |-> table]
    ELSE IF ~({"sector", "year"} \subseteq csv.columns)
    THEN [ok |-> FALSE, table |-> table]
    ELSE IF ResidentialRecent(csv.rows) = <<>>
    THEN [ok |-> FALSE, table |-> table]
    ELSE IF ~(ElectricityCols \subseteq csv.columns)
    THEN [ok |-> FALSE, table |-> table]
    ELSE IF ~url THEN [ok |-> FALSE, table |-> table]
    ELSE [ok |-> TRUE,
          table |-> (IF table = NoTable THEN <<>> ELSE table)
                        \o CleanRows(ResidentialRecent(csv.rows))]

\* what load_data_to_postgres returns and the power_consumption table it
\* leaves, from the CSV file, DB_URL and the table it finds.  Filtering on a
\* missing sector or year column raises KeyError, which the last handler
\* turns into False.
LoadResult(csv, url, table) ==
    IF csv = NoFile THEN [ok |-> FALSE, table |-> table]
    ELSE IF ~({"sector", "year"} \subseteq csv.columns)
    THEN [ok |-> FALSE, table |-> table]
    ELSE IF ResidentialRecent(csv.rows) = <<>>
    THEN [ok |-> FALSE, table |-> table]
    ELSE IF ~(ElectricityCols \subseteq csv.columns)
    THEN [ok |-> FALSE, table |-> table]
    ELSE IF ~url THEN [ok |-> FALSE, table |-> table]
    ELSE [ok |-> TRUE, table |-> CleanRows(ResidentialRecent(csv.rows))]

\* python load_data.py
LoadDataToPostgres ==
    /\ Idle
    /\ LET r == LoadResult(electricityCsv, dbUrl, power_consumption)
       IN /\ power_consumption' = r.table
          /\ Returns("load_data_to_postgres", r.ok)
    /\ UNCHANGED <<concurrentVars, modelFile, metadataFile, electricityCsv,
                   householdsCsv,
                   dbUrl, households, normalized_power>>

\* python load_households_to_db.py: read_csv raises without the file and
\* create_engine(None) raises without DB_URL; else the table is replaced
LoadHouseholdsToDb ==
    /\ Idle
    /\ IF householdsCsv = NoFile
       THEN /\ households' = households
            /\ request' = [endpoint |-> "load_households_to_db"]
            /\ run' = Raised("FileNotFoundError", "data/households.csv")
            /\ response' = NoResponse
       ELSE IF ~dbUrl
       THEN /\ households' = households
            /\ request' = [endpoint |-> "load_households_to_db"]
            /\ run' = Raised("ArgumentError", "DB_URL")
            /\ response' = NoResponse
       ELSE /\ households' = householdsCsv.rows
            /\ Returns("load_households_to_db", <<>>)
    /\ UNCHANGED <<concurrentVars, modelFile, metadataFile, electricityCsv,
                   householdsCsv,
                   dbUrl, power_consumption, normalized_power>>

\* electricity_merge.merge(households_merge, on=['county', 'year'],
\* how='inner'): every pair of an electricity row and a households row with
\* the same county and year, in the order of the electricity rows
Merge(electricity, hh) ==
    Flatten([k \in DOMAIN electricity |->
        LET matches == SelectSeq(hh, LAMBDA h :
                           h.county = electricity[k].county
                           /\ h.year = electricity[k].year)
        IN [i \in DOMAIN matches |->
               [county          |-> electricity[k].county,
                year            |-> electricity[k].year,
                month           |-> electricity[k].month,
                consumption_gwh |-> electricity[k].consumption_gwh,
                households      |-> matches[i].households]]])

\* (consumption_gwh * 1_000_000) / households, and the final columns
PerHousehold(merged) ==
    [k \in DOMAIN merged |->
        [county            |-> merged[k].county,
         year              |-> merged[k].year,
         month             |-> merged[k].month,
         kwh_per_household |->
             (merged[k].consumption_gwh * 1000) \div merged[k].households]]

SortKey(r) == (Rank(r.county) * 10000 + r.year) * 100 + r.month

\* sort_values(['county', 'year', 'month']), rows of one key in their order
RECURSIVE SortRows(_)
SortRows(rows) ==
    IF rows = <<>> THEN <<>>
    ELSE LET rest == SortRows(Tail(rows))
             r == Head(rows)
             before == SelectSeq(rest, LAMBDA x : SortKey(x) < SortKey(r))
             after == SelectSeq(rest, LAMBDA x : SortKey(x) >= SortKey(r))
         IN before \o <<r>> \o after

\* result_df of normalize_consumption for the two tables it read
Normalized(electricity, hh) ==
    SortRows(PerHousehold(Merge(ResidentialRecent(electricity), hh)))

\* python normalize_data.py: None without DB_URL, without one of the tables
\* (read_sql raises), without a row passing the filter and without a match
\* in the merge; else normalized_power is replaced by result_df
NormalizeConsumption ==
    /\ Idle
    /\ IF \/ ~dbUrl
          \/ power_consumption = NoTable
          \/ households = NoTable
       THEN /\ normalized_power' = normalized_power
            /\ Returns("normalize_consumption", <<>>)
       ELSE IF \/ ResidentialRecent(power_consumption) = <<>>
               \/ Merge(ResidentialRecent(power_consumption), households) = <<>>
       THEN /\ normalized_power' = normalized_power
            /\ Returns("normalize_consumption", <<>>)
       ELSE LET result_df == Normalized(power_consumption, households)
            IN /\ normalized_power' = result_df
               /\ Returns("normalize_consumption", <<result_df>>)
    /\ UNCHANGED <<concurrentVars, modelFile, metadataFile, electricityCsv,
                   householdsCsv,
                   dbUrl, power_consumption, households>>

NextData ==
    \/ GenerateRealisticData
    \/ PlaceElectricityCsv
    \/ EditEnv
    \/ LoadDataToPostgres
    \/ LoadHouseholdsToDb
    \/ NormalizeConsumption
    \/ Deliver

SpecData == Init /\ [][NextData]_vars

----------------------------------------------------------------------------
(* Concurrent /forecast requests.  Each handler of Workers runs the code of *)
(* the endpoint and of get_forecast statement group by statement group,     *)
(* with its own local variables (model, metadata, county_encoded,           *)
(* future_df, the run it ends in), and the steps of the handlers interleave *)
(* freely.  The storage is written only while no handler runs.              *)

\* the largest periods of a request served concurrently
MaxConcurrentPeriods == 2

ConcurrentParams == {<<p>> : p \in 0..MaxConcurrentPeriods}

ConcurrentCounties == {"Alameda", "Atlantis", "Santa Clara"}

Quiet == \A h \in Workers : handlers[h] = IdleHandler

Goto(h, pc, locals) ==
    handlers' = [handlers EXCEPT ![h] = [locals EXCEPT !.pc = pc]]

\* a variant of FutureFrame that keeps the frame it built first in a
\* module-level variable and hands it to every later call
FutureFrameCached(county_encoded, periods, feature_cols, globals) ==
    LET future_df ==
            AstypeInt(SelectColumns(
                FutureData(county_encoded, FutureDates(periods)),
                feature_cols))
    IN IF globals = <<>>
       THEN [future_df |-> future_df, globals |-> <<future_df>>]
       ELSE [future_df |-> globals[1], globals |-> globals]

\* lines 81-123 of get_forecast: the frame built from the arguments and the
\* loaded metadata, and what the module-level variables are afterwards
FutureFrame(county_encoded, periods, feature_cols, globals) ==
    [future_df |-> AstypeInt(SelectColumns(
                       FutureData(county_encoded, FutureDates(periods)),
                       feature_cols)),
     globals   |-> globals]

\* the request arrives and the handler validates periods
Receive(h) ==
    /\ handlers[h] = IdleHandler
    /\ \E county \in ConcurrentCounties, param \in ConcurrentParams :
          LET periods == QueryPeriods(param)
              locals == [pc |-> "idle", county |-> county, periods |-> param]
          IN IF periods < MinPeriods \/ periods > MaxPeriods
             THEN handlers' = [handlers EXCEPT ![h] =
                      [pc |-> "returned", county |-> county,
                       periods |-> param, run |-> NotInvoked]]
             ELSE Goto(h, "called", locals)
    /\ UNCHANGED <<modelFile, metadataFile, request, run, response, dataVars,
                   moduleGlobals>>

\* lines 50-75: the files are checked and loaded, the county is looked up
LoadAndResolve(h) ==
    /\ handlers[h].pc = "called"
    /\ LET me == handlers[h]
           resolved == Resolve(me.county, modelFile, metadataFile)
       IN IF resolved.kind # "resolved"
          THEN handlers' = [handlers EXCEPT ![h] =
                   [pc |-> "returned", county |-> me.county,
                    periods |-> me.periods, run |-> resolved]]
          ELSE handlers' = [handlers EXCEPT ![h] =
                   [pc |-> "resolved", county |-> me.county,
                    periods |-> me.periods, model |-> modelFile,
                    metadata |-> metadataFile,
                    county_encoded |-> resolved.info]]
    /\ UNCHANGED <<modelFile, metadataFile, request, run, response, dataVars,
                   moduleGlobals>>

\* lines 81-123: the future frame is built from the loaded metadata
BuildFrame(h) ==
    /\ handlers[h].pc = "resolved"
    /\ LET me == handlers[h]
           periods == QueryPeriods(me.periods)
           feature_cols == me.metadata.features
           future_data == FutureData(me.county_encoded, FutureDates(periods))
           built == FutureFrame(me.county_encoded, periods, feature_cols,
                                moduleGlobals)
       IN IF MissingCols(future_data, feature_cols) # {}
          THEN /\ handlers' = [handlers EXCEPT ![h] =
                      [pc |-> "returned", county |-> me.county,
                       periods |-> me.periods,
                       run |-> Raised("KeyError",
                                      MissingCols(future_data, feature_cols))]]
               /\ moduleGlobals' = moduleGlobals
          ELSE IF \E c \in Range(AstypeCols) : c \notin Range(feature_cols)
          THEN /\ handlers' = [handlers EXCEPT ![h] =
                      [pc |-> "returned", county |-> me.county,
                       periods |-> me.periods,
                       run |-> Raised("KeyError",
                                      Range(AstypeCols) \ Range(feature_cols))]]
               /\ moduleGlobals' = moduleGlobals
          ELSE /\ handlers' = [handlers EXCEPT ![h] =
                      [pc |-> "built", county |-> me.county,
                       periods |-> me.periods, model |-> me.model,
                       future_df |-> built.future_df]]
               /\ moduleGlobals' = built.globals
    /\ UNCHANGED <<modelFile, metadataFile, request, run, response, dataVars>>

\* lines 125-148: model.predict on the frame, and the result dict
PredictAndFormat(h) ==
    /\ handlers[h].pc = "built"
    /\ LET me == handlers[h]
           periods == QueryPeriods(me.periods)
           predictions == Predict(me.model, me.future_df)
       IN handlers' = [handlers EXCEPT ![h] =
              [pc |-> "returned", county |-> me.county,
               periods |-> me.periods,
               run |-> [kind |-> "ok",
                        info |-> [county     |-> me.county,
                                  periods    |-> periods,
                                  model_type |-> "unified_xgboost",
                                  forecast   |->
                                      FormatResults(FutureDates(periods),
                                                    predictions)],
                        calls |-> <<me.future_df>>]]]
    /\ UNCHANGED <<modelFile, metadataFile, request, run, response, dataVars,
                   moduleGlobals>>

\* the handler turns the run into its response
Respond(h) ==
    /\ handlers[h].pc = "returned"
    /\ LET me == handlers[h]
       IN handlers' = [handlers EXCEPT ![h] =
              [pc |-> "responded", county |-> me.county,
               periods |-> me.periods, run |-> me.run,
               response |-> ForecastResponse(QueryPeriods(me.periods),
                                             me.run)]]
    /\ UNCHANGED <<modelFile, metadataFile, request, run, response, dataVars,
                   moduleGlobals>>

\* the response leaves the server
Complete(h) ==
    /\ handlers[h].pc = "responded"
    /\ handlers' = [handlers EXCEPT ![h] = IdleHandler]
    /\ UNCHANGED <<modelFile, metadataFile, request, run, response, dataVars,
                   moduleGlobals>>

HandlerStep(h) ==
    \/ Receive(h)
    \/ LoadAndResolve(h)
    \/ BuildFrame(h)
    \/ PredictAndFormat(h)
    \/ Respond(h)
    \/ Complete(h)

NextConcurrent ==
    \/ Quiet /\ TrainUnifiedModel
    \/ Quiet /\ RemoveModelFile
    \/ Quiet /\ RemoveMetadataFile
    \/ \E h \in Workers : HandlerStep(h)

SpecConcurrent == Init /\ [][NextConcurrent]_vars

----------------------------------------------------------------------------
(* Properties.  While a request is being served the storage is the one its *)
(* handler read, so the properties relate request, run, response and the   *)
(* two files of one state.                                                 *)

ServingForecast == request.endpoint = "/forecast"

Periods == QueryPeriods(request.periods)

Returned == ServingForecast /\ run.kind = "ok"

Forecast == run.info.forecast

\* the values model.predict returned to the run
Predictions == Predict(modelFile, run.calls[1])

StoragePresent == modelFile # NoFile /\ metadataFile # NoFile

\* the calendar month after <<year, month>>
MonthAfter(ym) == IF ym[2] = 12 THEN <<ym[1] + 1, 1>> ELSE <<ym[1], ym[2] + 1>>

YearMonth(date) == <<date[1], date[2]>>

\* the last month of the training history: start_date of get_forecast
TrainingCutoff == YearMonth(StartDate)

(* C1: for every known county and every periods in 1..36 get_forecast
   returns a forecast list of exactly `periods` entries, and the county and
   periods fields of the result are the requested ones. *)
C1_ForecastShape ==
    ( /\ ServingForecast
      /\ Periods \in MinPeriods..MaxPeriods
      /\ StoragePresent
      /\ request.county \in Range(metadataFile.counties) )
    => /\ run.kind = "ok"
       /\ response.status = 200
       /\ response.body = run.info
       /\ Len(run.info.forecast) = Periods
       /\ run.info.county = request.county
       /\ run.info.periods = Periods

C1_Witness ==
    /\ Returned
    /\ Periods = MaxPeriods
    /\ Len(Forecast) = MaxPeriods
    /\ request.county = "Santa Clara"

(* C2: the (year, month) of the forecast entries are strictly increasing
   without a duplicate or a skipped month: entry 1 is in the month after the
   training cutoff month and entry k+1 in the month after entry k. *)
C2_GaplessMonths ==
    Returned =>
        /\ Len(Forecast) = Periods
        /\ YearMonth(Forecast[1].date) = MonthAfter(TrainingCutoff)
        /\ \A k \in 1..(Len(Forecast) - 1) :
               YearMonth(Forecast[k + 1].date)
                   = MonthAfter(YearMonth(Forecast[k].date))

C2_Witness ==
    /\ Returned
    /\ Len(Forecast) = MaxPeriods
    /\ YearMonth(Forecast[MaxPeriods].date) = <<2027, 12>>

(* C3: every forecast entry's date is the first day of its month (each
   horizon step advances by one calendar month). *)
C3_FirstOfMonth ==
    Returned => \A k \in DOMAIN Forecast : Forecast[k].date[3] = 1

(* C4: every forecast entry has lower_bound <= predicted_kwh <= upper_bound,
   whatever the model predicts. *)
C4_BoundsBracket ==
    Returned =>
        \A k \in DOMAIN Forecast :
            /\ Forecast[k].lower_bound <= Forecast[k].predicted_kwh
            /\ Forecast[k].predicted_kwh <= Forecast[k].upper_bound

(* C5: in every forecast entry lower_bound >= 0, and upper_bound is the
   rounded prediction plus half-width, not floored, also when negative. *)
C5_LowerFlooredUpperNot ==
    Returned =>
        \A k \in DOMAIN Forecast :
            /\ Forecast[k].lower_bound >= 0
            /\ Forecast[k].upper_bound
                   = Round2(Predictions[k] * 1000 + HalfWidth(Predictions))

C5_Witness ==
    /\ Returned
    /\ \E k \in DOMAIN Forecast :
           /\ Forecast[k].upper_bound < 0
           /\ Forecast[k].lower_bound = 0
    /\ \E k \in DOMAIN Forecast :
           /\ Forecast[k].lower_bound > 0
           /\ Forecast[k].lower_bound < Forecast[k].predicted_kwh

(* C6: the lag_1 feature of horizon step k > 1 is the value predicted for
   step k - 1. *)
C6_RecursiveLag ==
    (Returned /\ "lag_1" \in Range(run.calls[1].columns)) =>
        \A k \in 2..Len(Forecast) :
            run.calls[1].rows[k]["lag_1"] = Predictions[k - 1]

(* C7: predict is called only when the key set of the built feature vector
   equals the metadata's feature list; on a discrepancy in either direction
   the run raises and never calls predict. *)
C7_FeatureContractChecked ==
    ( /\ ServingForecast
      /\ StoragePresent
      /\ Range(metadataFile.features) # Range(BuiltCols) )
    => /\ run.kind # "ok"
       /\ run.calls = <<>>

(* C8: the columns of the frame passed to predict are the feature list the
   model was fitted on and the one written to the metadata, in that order. *)
C8_FeatureOrderPreserved ==
    (ServingForecast /\ run.calls # <<>>) =>
        /\ Len(run.calls) = 1
        /\ run.calls[1].columns = modelFile.fitted
        /\ run.calls[1].columns = metadataFile.features
        /\ \A k \in DOMAIN run.calls[1].rows :
               DOMAIN run.calls[1].rows[k] = Range(modelFile.fitted)

C8_Witness ==
    /\ Returned
    /\ run.calls # <<>>
    /\ Len(run.calls[1].rows) = MaxPeriods
    /\ run.calls[1].columns[1] = "county_encoded"
    /\ run.calls[1].columns[11] = "rolling_mean_3"

(* C9: with artifact and metadata present, a request for a county that is
   not in the metadata's county list raises the county-not-found error
   carrying the full list of available counties; predict is not called and
   no forecast is returned. *)
C9_UnknownCounty ==
    ( /\ ServingForecast
      /\ Periods \in MinPeriods..MaxPeriods
      /\ StoragePresent
      /\ request.county \notin Range(metadataFile.counties) )
    => /\ run.kind = "ValueError"
       /\ run.info.requested = request.county
       /\ run.info.available = metadataFile.counties
       /\ run.calls = <<>>
       /\ response.status # 200

C9_Witness ==
    /\ ServingForecast
    /\ request.county = "Atlantis"
    /\ run.kind = "ValueError"
    /\ run.info.available = <<"Alameda", "Santa Clara">>

(* C10: a request for an unknown county is answered by /forecast with a
   not-found response, not with the response of a server-side failure. *)
C10_UnknownCountyNotFound ==
    (ServingForecast /\ run.kind = "ValueError") => response.status = 404

(* C11: a /forecast request with periods outside 1..36 is answered 400
   without get_forecast being invoked; get_forecast is invoked only with
   periods in 1..36, and with 12 when the parameter is omitted. *)
C11_PeriodsValidated ==
    ServingForecast =>
        /\ (Periods < 1 \/ Periods > 36) =>
               (response.status = 400 /\ run = NotInvoked)
        /\ run # NotInvoked => Periods \in 1..36
        /\ (request.periods = <<>> /\ run.kind = "ok") =>
               (run.info.periods = 12 /\ Len(run.info.forecast) = 12)
        /\ (request.periods # <<>> /\ run.kind = "ok") =>
               run.info.periods = request.periods[1]

C11_Witness ==
    /\ ServingForecast
    /\ request.periods = <<37>>
    /\ StoragePresent
    /\ request.county \in Range(metadataFile.counties)
    /\ response.status = 400
    /\ run = NotInvoked

\* a list of county names is strictly ascending: sorted, without duplicates
StrictlyAscending(xs) ==
    \A i \in 1..(Len(xs) - 1) : Rank(xs[i]) < Rank(xs[i + 1])

(* C12: list_available_counties returns the same list when called again on
   unchanged storage, and that list is sorted ascending and holds no name
   twice, whatever county list the metadata holds. *)
C12_CountiesSortedUnique ==
    request.endpoint = "/counties" =>
        /\ response.body.counties = list_available_counties(metadataFile)
        /\ response.body.total_counties = Len(response.body.counties)
        /\ StrictlyAscending(response.body.counties)

(* C15: when the model artifact or the metadata record is missing,
   get_forecast raises the file-not-found error carrying the expected path,
   predict is not called, and /forecast answers 404. *)
C15_ModelNotFound ==
    ( /\ ServingForecast
      /\ run # NotInvoked
      /\ ~StoragePresent )
    => /\ run.kind = "FileNotFoundError"
       /\ run.info = (IF modelFile = NoFile THEN ModelPath ELSE MetadataPath)
       /\ run.calls = <<>>
       /\ response.status = 404
       /\ response.body.detail = run.info

C15_Witness ==
    /\ ServingForecast
    /\ modelFile # NoFile
    /\ metadataFile = NoFile
    /\ run.kind = "FileNotFoundError"
    /\ run.info = MetadataPath
    /\ response.status = 404

----------------------------------------------------------------------------
\* C13: in every storage state, every county name that
\* list_available_counties returns resolves: get_forecast's artifact,
\* metadata, membership and encoding lookups raise nothing for it.
C13_ListedCountiesResolve ==
    \A k \in DOMAIN list_available_counties(metadataFile) :
        Resolve(list_available_counties(metadataFile)[k],
                modelFile, metadataFile).kind = "resolved"

----------------------------------------------------------------------------
\* " ".join(name.split()): the name without leading, trailing and repeated
\* whitespace
WhitespaceNormalized(name) ==
    IF name = " Santa  Clara " THEN "Santa Clara" ELSE name

\* C16: get_forecast matches the requested county after whitespace
\* normalization and exactly otherwise: a name that normalizes to a known
\* county passes the same lookups with the same code as that county, and
\* any other name (a different letter case included) is rejected as unknown.
C16_WhitespaceNormalizedMatch ==
    (ServingForecast /\ run # NotInvoked /\ StoragePresent) =>
        LET name == WhitespaceNormalized(request.county)
            asked == Resolve(request.county, modelFile, metadataFile)
            exact == Resolve(name, modelFile, metadataFile)
        IN IF CountyKnown(name, metadataFile)
           THEN /\ run.kind # "ValueError"
                /\ asked.kind = exact.kind
                /\ asked.kind = "resolved" => asked.info = exact.info
           ELSE run.kind = "ValueError"

----------------------------------------------------------------------------
\* the dates of a forecast list, in the order of the list
ForecastDates == [k \in DOMAIN Forecast |-> Forecast[k].date]

\* C17: for county "Santa Clara" and periods = 6 the forecast dates are
\* 2024-12-01, 2025-01-01, 2025-02-01, 2025-03-01, 2025-04-01, 2025-05-01,
\* in that order.  (get_forecast reads no history: its dates come from the
\* fixed start_date alone, whatever month the training data ends in, so the
\* training cutoff of 2024-11 is no condition on the state.)
C17_SantaClaraSixMonths ==
    (Returned /\ request.county = "Santa Clara" /\ Periods = 6)
    => ForecastDates = << <<2024, 12, 1>>, <<2025, 1, 1>>, <<2025, 2, 1>>,
                          <<2025, 3, 1>>, <<2025, 4, 1>>, <<2025, 5, 1>> >>

----------------------------------------------------------------------------
LagCols == {"lag_1", "lag_12", "rolling_mean_3"}

\* the lag and rolling features of every step of the frame hold one value
ConstantFilled(frame) ==
    /\ LagCols \subseteq Range(frame.columns)
    /\ \A k \in DOMAIN frame.rows : \A c \in LagCols :
           frame.rows[k][c] = frame.rows[1]["lag_1"]

\* the result tells its reader that it is a fallback: by a model kind other
\* than the unified model's, or by a field beside the four of a plain result
\* or the four of a plain forecast entry
Flagged(result) ==
    \/ result.model_type # "unified_xgboost"
    \/ DOMAIN result # {"county", "periods", "model_type", "forecast"}
    \/ \E k \in DOMAIN result.forecast :
           DOMAIN result.forecast[k]
               # {"date", "predicted_kwh", "lower_bound", "upper_bound"}

\* C18: whenever get_forecast fills lag_1, lag_12 and rolling_mean_3 of all
\* horizon steps with one constant, the result it returns is flagged as a
\* constant-fill fallback.
C18_ConstantFillFlagged ==
    (Returned /\ ConstantFilled(run.calls[1])) => Flagged(run.info)

----------------------------------------------------------------------------
DirectCall == request.endpoint = "get_forecast"

\* the errors that tell the caller its periods argument is invalid
InvalidPeriodsErrors == {"InvalidPeriodsError", "ValueError"}

\* C19: get_forecast, called directly with periods <= 0 for a known county,
\* rejects the call with an invalid-periods error and returns no forecast
\* result.
C19_NonPositivePeriodsRejected ==
    (DirectCall /\ request.periods[1] <= 0 /\ StoragePresent
                /\ CountyKnown(request.county, metadataFile))
    => /\ run.kind # "ok"
       /\ run.kind \in InvalidPeriodsErrors

----------------------------------------------------------------------------
BuildingFeatures == request.endpoint = "create_features"

\* the rows of the table that belong to the county of row k
OwnSeries(df, k) == Group(df, df[k].county)

\* C14: create_features, in the serving module and in the training module,
\* computes lag_1, lag_12 and rolling_mean_3 of a row from rows of the same
\* county only: each row gets the values it gets when the builder is given
\* the records of its county alone.
C14_LagsWithinCounty ==
    (BuildingFeatures /\ run.kind = "ok") =>
        \A k \in DOMAIN request.df :
            LET alone == Features(request.module, OwnSeries(request.df, k))
                            [PosInGroup(request.df, k)]
            IN /\ run.info[k].lag_1 = alone.lag_1
               /\ run.info[k].lag_12 = alone.lag_12
               /\ run.info[k].rolling_mean_3 = alone.rolling_mean_3

\* C20: the Feature Builder emits no feature vector with a null lag_1 or
\* lag_12: asked for the lags of a row whose prior values are missing, it
\* fails with an insufficient-history error.
C20_InsufficientHistoryRejected ==
    BuildingFeatures =>
        /\ run.kind = "ok" =>
               \A k \in DOMAIN run.info :
                   run.info[k].lag_1 # <<>> /\ run.info[k].lag_12 # <<>>
        /\ (\E k \in DOMAIN request.df : PosInGroup(request.df, k) <= 12)
               => run.kind = "InsufficientHistoryError"

----------------------------------------------------------------------------
\* the table holds the records of one county (in chronological order, as
\* every table of Datasets does)
SingleCounty(df) == \A i, j \in DOMAIN df : df[i].county = df[j].county

Target(df, n) == df[n].kwh_per_household

\* C21: for a chronologically ordered single-county series, create_features
\* sets lag_1 of record n to the target of record n-1 and lag_12 to the
\* target of record n-12; lag_1 is null exactly for the first record and
\* lag_12 exactly for the first 12 records.
C21_LagOffsets ==
    (BuildingFeatures /\ run.kind = "ok" /\ SingleCounty(request.df)) =>
        \A n \in DOMAIN request.df :
            /\ run.info[n].lag_1 =
                   (IF n = 1 THEN <<>> ELSE <<Target(request.df, n - 1)>>)
            /\ run.info[n].lag_12 =
                   (IF n <= 12 THEN <<>> ELSE <<Target(request.df, n - 12)>>)

\* a rising series of 13 records of one county went through the serving
\* builder: record 13 has both lags, different from its own target
C21_Witness ==
    /\ BuildingFeatures /\ request.module = "forecast"
    /\ SingleCounty(request.df) /\ Len(request.df) = 13
    /\ run.info[13].lag_12 = <<Target(request.df, 1)>>
    /\ run.info[13].lag_1 = <<Target(request.df, 12)>>
    /\ Target(request.df, 1) # Target(request.df, 12)
    /\ run.info[12].lag_12 = <<>>

\* C22: for a chronologically ordered single-county series, rolling_mean_3
\* of record n is the mean of the targets of records max(1, n-2)..n, no
\* later record, and it is defined from the first record on.
C22_TrailingMean ==
    (BuildingFeatures /\ run.kind = "ok" /\ SingleCounty(request.df)) =>
        \A n \in DOMAIN request.df :
            LET lo == Max(1, n - 2)
                window == [i \in 1..(n - lo + 1) |->
                              Target(request.df, lo + i - 1)]
            IN run.info[n].rolling_mean_3 * Len(window) = SumSeq(window)

\* a rising series of at least 4 records of one county went through the
\* training builder: record 3 has the mean of records 1..3, which the later
\* record 4 would change
C22_Witness ==
    /\ BuildingFeatures /\ request.module = "train_unified_model"
    /\ SingleCounty(request.df) /\ Len(request.df) >= 4
    /\ Target(request.df, 4) # Target(request.df, 1)
    /\ run.info[3].rolling_mean_3 * 3 =
           Target(request.df, 1) + Target(request.df, 2) + Target(request.df, 3)
    /\ run.info[1].rolling_mean_3 = Target(request.df, 1)

----------------------------------------------------------------------------
RecordKey(r) == <<r.county, r.year, r.month>>

\* C23: after normalize_consumption has run, on any power_consumption and
\* households tables, those loaded from the generated sample files
\* included, normalized_power holds no two records with the same
\* (county, year, month).
C23_UniqueRecordKey ==
    normalized_power # NoTable =>
        \A i, j \in DOMAIN normalized_power :
            RecordKey(normalized_power[i]) = RecordKey(normalized_power[j])
                => i = j

----------------------------------------------------------------------------
\* what handler h answers when it is the only one running, on the storage
\* as it is
AloneResponse(h) ==
    LET periods == QueryPeriods(handlers[h].periods)
    IN ForecastResponse(periods,
           ForecastRun(handlers[h].county, periods, modelFile, metadataFile))

\* C24: forecast computations share no mutable state: in every interleaving
\* of two concurrent /forecast requests each handler answers what it answers
\* when run alone on the same storage, and no step of a handler writes to
\* the model storage or to a module-level variable.
C24_NoSharedMutableState ==
    /\ [](\A h \in Workers :
              handlers[h].pc = "responded"
                  => handlers[h].response = AloneResponse(h))
    /\ [][(\E h \in Workers : HandlerStep(h))
              => UNCHANGED <<modelFile, metadataFile, moduleGlobals>>]_vars

\* two requests for different counties are in flight at once: one has its
\* frame built and not yet predicted while the other has already been
\* answered with a forecast
C24_Witness ==
    /\ handlers[1].pc = "built"
    /\ handlers[2].pc = "responded"
    /\ handlers[2].response.status = 200
    /\ handlers[1].county # handlers[2].county
    /\ handlers[1].periods # handlers[2].periods

----------------------------------------------------------------------------
ServingCounties == request.endpoint = "/counties"

\* /counties answers 200 with the sorted counties of the metadata, or with
\* the empty list when the metadata is missing
CountiesListed ==
    ServingCounties =>
        /\ response.status = 200
        /\ metadataFile # NoFile =>
               /\ response.body.counties = SortedNames(metadataFile.counties)
               /\ response.body.total_counties = Len(metadataFile.counties)
        /\ metadataFile = NoFile =>
               /\ response.body.counties = <<>>
               /\ response.body.total_counties = 0

\* C25 as stated: while the model artifact is missing every /forecast
\* request, also one for an unknown county, fails with the file-not-found
\* error (404), never with the county-not-found error; /counties still lists
\* the counties of the metadata, and the empty list without metadata.
C25_EveryRequestNotFound ==
    /\ (ServingForecast /\ modelFile = NoFile) =>
           /\ run.kind = "FileNotFoundError"
           /\ response.status = 404
    /\ CountiesListed

\* C25, amended: while the model artifact is missing every /forecast request
\* whose periods pass the validation (1..36), also one for an unknown
\* county, fails with the file-not-found error naming the model (404) and
\* never with the county-not-found error; a request with periods outside
\* 1..36 is answered 400 before the storage is looked at.  /counties still
\* lists the counties of the metadata, and the empty list without metadata.
C25_CheckOrder ==
    /\ (ServingForecast /\ modelFile = NoFile) =>
           IF Periods \in MinPeriods..MaxPeriods
           THEN /\ run.kind = "FileNotFoundError"
                /\ run.info = ModelPath
                /\ response.status = 404
           ELSE /\ run = NotInvoked
                /\ response.status = 400
    /\ (ServingForecast /\ modelFile # NoFile /\ metadataFile = NoFile
            /\ run # NotInvoked) =>
           /\ run.kind = "FileNotFoundError"
           /\ run.info = MetadataPath
    /\ CountiesListed

\* a request for an unknown county while the model artifact is missing and
\* the metadata is there
C25_Witness ==
    /\ ServingForecast
    /\ modelFile = NoFile /\ metadataFile # NoFile
    /\ ~CountyKnown(request.county, metadataFile)
    /\ Periods \in MinPeriods..MaxPeriods
    /\ response.status = 404

----------------------------------------------------------------------------
AllEqual(xs) == \A i, j \in DOMAIN xs : xs[i] = xs[j]

\* C26: the interval half-width is one value per response, derived from the
\* spread of the response's predictions and applied to every point; when
\* all predictions of the response are equal, in particular for periods = 1,
\* upper_bound = predicted_kwh, and lower_bound = predicted_kwh whenever the
\* prediction is not negative.
C26_OneHalfWidth ==
    Returned =>
        LET half_width == HalfWidth(Predictions)
        IN /\ \A k \in DOMAIN Forecast :
                  /\ Forecast[k].upper_bound
                         = Round2(Predictions[k] * 1000 + half_width)
                  /\ Forecast[k].lower_bound
                         = Round2(Max(0, Predictions[k] * 1000 - half_width))
           /\ Periods = 1 => AllEqual(Predictions)
           /\ AllEqual(Predictions) =>
                  \A k \in DOMAIN Forecast :
                      /\ Forecast[k].upper_bound = Forecast[k].predicted_kwh
                      /\ Predictions[k] >= 0 =>
                             Forecast[k].lower_bound
                                 = Forecast[k].predicted_kwh

\* a forecast of one period with a positive prediction: a degenerate
\* interval
C26_Witness ==
    /\ Returned /\ Periods = 1
    /\ Predictions[1] > 0
    /\ Forecast[1].upper_bound = Forecast[1].predicted_kwh
    /\ Forecast[1].lower_bound = Forecast[1].predicted_kwh
    /\ Forecast[1].predicted_kwh > 0

----------------------------------------------------------------------------
\* the counties of the table the stored model was trained on
TrainingCounties == Range(metadataFile.counties)

\* the county_mapping keys that name the county
CodesOf(county) ==
    {k \in DOMAIN metadataFile.county_mapping :
        metadataFile.county_mapping[k] = county}

\* C27: the county encoding round-trips from training to serving: for every
\* county of the training data the integer code get_forecast puts into the
\* frame (found by inverting the metadata's county_mapping, whose keys are
\* JSON strings) is the county_encoded value train_unified_model assigned to
\* that county, and every county of the metadata's counties list has exactly
\* one code.
C27_CountyCodeRoundTrip ==
    /\ metadataFile # NoFile =>
           \A c \in TrainingCounties : Cardinality(CodesOf(c)) = 1
    /\ (ServingForecast /\ run.calls # <<>>) =>
           \A k \in DOMAIN run.calls[1].rows :
               run.calls[1].rows[k]["county_encoded"]
                   = CategoricalCode(request.county, TrainingCounties)

\* a forecast for the second of two trained counties: its code is 1
C27_Witness ==
    /\ Returned
    /\ Cardinality(TrainingCounties) = 2
    /\ CategoricalCode(request.county, TrainingCounties) = 1
    /\ run.calls[1].rows[1]["county_encoded"] = 1

----------------------------------------------------------------------------
Loading == request.endpoint = "load_data_to_postgres"

\* the step is a run of load_data_to_postgres
LoadStep == Idle /\ request'.endpoint = "load_data_to_postgres"

\* the CSV file has a row of the Residential sector of 2022..2024
HasResidentialRecent(csv) ==
    \E k \in DOMAIN csv.rows :
        /\ csv.rows[k].sector = "Residential"
        /\ csv.rows[k].year \in 2022..2024

\* one of the conditions under which the load must fail: no CSV file, no
\* DB_URL, a required column missing, or no row left by the filter
LoadMustFail ==
    \/ electricityCsv = NoFile
    \/ ~dbUrl
    \/ ~(ElectricityCols \subseteq electricityCsv.columns)
    \/ ~HasResidentialRecent(electricityCsv)

\* C28: load_data_to_postgres replaces the power_consumption table only as
\* its last step: when the CSV file is missing, the filter leaves no rows, a
\* required column is missing or DB_URL is unset it returns False and the
\* table is left as it was; when it succeeds the table holds only
\* Residential rows with year in 2022..2024 and month in 1..12; and loading
\* one CSV file a second time leaves the table the first load left (the
\* table after a successful load is the one the load leaves in a database
\* without the table).
C28_LoadReplacesLast ==
    /\ [](Loading /\ run.info = TRUE =>
              \A k \in DOMAIN power_consumption :
                  /\ power_consumption[k].sector = "Residential"
                  /\ power_consumption[k].year \in 2022..2024
                  /\ power_consumption[k].month \in 1..12)
    /\ [][LoadStep /\ LoadMustFail =>
              /\ run'.info = FALSE
              /\ power_consumption' = power_consumption]_vars
    /\ [][power_consumption' # power_consumption =>
              LoadStep /\ run'.info = TRUE]_vars
    /\ [][LoadStep /\ run'.info = TRUE =>
              power_consumption'
                  = LoadResult(electricityCsv, TRUE, NoTable).table]_vars

\* a CSV file that mixes good rows with rows of another sector, other
\* years, months outside 1..12 and cells that are no numbers was loaded: the
\* table holds its two good rows
C28_Witness ==
    /\ Loading /\ run.info = TRUE
    /\ \E k \in DOMAIN electricityCsv.rows :
           electricityCsv.rows[k].sector = "Commercial"
    /\ \E k \in DOMAIN electricityCsv.rows : electricityCsv.rows[k].month = <<13>>
    /\ Len(electricityCsv.rows) > Len(power_consumption)
    /\ Len(power_consumption) = 2

----------------------------------------------------------------------------
OtherModule(module) ==
    IF module = "forecast" THEN "train_unified_model" ELSE "forecast"

\* C29: the training and the serving feature derivations agree: for every
\* table, a single-county series or one holding several counties, the
\* create_features of src/forecast.py and the one of train_unified_model.py
\* give every row the same trend, lag_1, lag_12 and rolling_mean_3.
C29_BuildersAgree ==
    (BuildingFeatures /\ run.kind = "ok") =>
        LET other == Features(OtherModule(request.module), request.df)
        IN \A k \in DOMAIN request.df :
               /\ run.info[k].trend = other[k].trend
               /\ run.info[k].lag_1 = other[k].lag_1
               /\ run.info[k].lag_12 = other[k].lag_12
               /\ run.info[k].rolling_mean_3 = other[k].rolling_mean_3

====
